---- MODULE Spec2Model ----
(***************************************************************************)
(* A model of airbndacquire.py: seven functions that take a pandas         *)
(* dataframe, derive a dataframe from it and render a chart.               *)
(*                                                                         *)
(* A dataframe is a record [dtype, rows]: dtype maps each column name to   *)
(* its pandas dtype, rows is the sequence of rows, each a function from    *)
(* the column names to a cell value.  Cell values are tagged records:      *)
(* NA (NaN/NaT/None), Str (a raw string, kept as its sequence of           *)
(* characters so that parsing is computed), Ts (a timestamp), IntV, Name   *)
(* (a weekday name) and Pct (a percentage kept as an exact fraction).      *)
(* The charts themselves are not state; the expressions evaluated while    *)
(* drawing them are modelled where they can raise.                         *)
(***************************************************************************)
EXTENDS Integers, Sequences, FiniteSets, TLC

VARIABLES data, fresh, call, ret, excludedUsed

vars == <<data, fresh, call, ret, excludedUsed>>

\* ------------------------------------------------------------------ bounds

\* The largest number of rows of an input table.
MaxRows == 3

\* ------------------------------------------------------------- cell values

NA == [k |-> "na"]
Str(s) == [k |-> "str", s |-> s]
Ts(y, m, d) == [k |-> "ts", y |-> y, m |-> m, d |-> d]
IntV(v) == [k |-> "int", v |-> v]
Name(n) == [k |-> "name", n |-> n]
Pct(num, den) == [k |-> "pct", num |-> num, den |-> den]

IsNA(v) == v.k = "na"

\* ----------------------------------------------------- parsing '%Y-%m-%d'

Digits == <<"0", "1", "2", "3", "4", "5", "6", "7", "8", "9">>

IsDigit(c) == \E i \in 1..10 : Digits[i] = c

DigitVal(c) == (CHOOSE i \in 1..10 : Digits[i] = c) - 1

RECURSIVE Number(_)
Number(s) == IF s = <<>> THEN 0
             ELSE 10 * Number(SubSeq(s, 1, Len(s) - 1)) + DigitVal(s[Len(s)])

AllDigits(s) == \A i \in 1..Len(s) : IsDigit(s[i])

IsLeap(y) == (y % 4 = 0 /\ y % 100 # 0) \/ y % 400 = 0

DaysInMonth(y, m) == IF m = 2 THEN (IF IsLeap(y) THEN 29 ELSE 28)
                     ELSE IF m \in {4, 6, 9, 11} THEN 30 ELSE 31

\* The three fields of a string split at its two '-' characters, or <<>>
\* when the string does not have exactly two of them.
Fields(s) ==
    LET dash == {i \in 1..Len(s) : s[i] = "-"}
    IN  IF Cardinality(dash) # 2 THEN <<>>
        ELSE LET p == CHOOSE i \in dash : \A j \in dash : i <= j
                 q == CHOOSE i \in dash : \A j \in dash : j <= i
             IN  <<SubSeq(s, 1, p - 1), SubSeq(s, p + 1, q - 1),
                   SubSeq(s, q + 1, Len(s))>>

\* Whether a string matches the format '%Y-%m-%d' and names a calendar day:
\* four digits, a month 1..12 and a day of that month, each of one or two
\* digits.
Matches(s) ==
    LET f == Fields(s)
    IN  /\ f # <<>>
        /\ Len(f[1]) = 4 /\ AllDigits(f[1])
        /\ Len(f[2]) \in {1, 2} /\ AllDigits(f[2])
        /\ Len(f[3]) \in {1, 2} /\ AllDigits(f[3])
        /\ Number(f[2]) \in 1..12
        /\ Number(f[3]) \in 1..DaysInMonth(Number(f[1]), Number(f[2]))

Strptime(s) ==
    LET f == Fields(s) IN Ts(Number(f[1]), Number(f[2]), Number(f[3]))

\* A parse that takes whatever it is given, as with errors='coerce'.
ParseableCoerced(v) == TRUE

\* pd.to_datetime(value, format='%Y-%m-%d') of one cell: a timestamp and a
\* missing value pass through, a string is parsed, anything else does not
\* match the format.
Parseable(v) ==
    \/ v.k \in {"na", "ts"}
    \/ v.k = "str" /\ Matches(v.s)

\* pd.to_datetime(cells, format='%Y-%m-%d') of a column of parseable cells.
ToDatetime(cells) ==
    [i \in DOMAIN cells |->
        IF cells[i].k = "str" THEN Strptime(cells[i].s) ELSE cells[i]]

\* ------------------------------------------------------------ .dt accessors

\* Days since 0000-03-01 of a calendar day.
DayNumber(t) ==
    LET y   == IF t.m <= 2 THEN t.y - 1 ELSE t.y
        era == y \div 400
        yoe == y - era * 400
        mp  == IF t.m > 2 THEN t.m - 3 ELSE t.m + 9
        doy == (153 * mp + 2) \div 5 + t.d - 1
        doe == yoe * 365 + yoe \div 4 - yoe \div 100 + doy
    IN  era * 146097 + doe

weekday_order == <<"Monday", "Tuesday", "Wednesday", "Thursday", "Friday",
                   "Saturday", "Sunday">>

\* The .dt accessors of a column of timestamps; NaT gives NaN.
DtYear(cells) ==
    [i \in DOMAIN cells |-> IF IsNA(cells[i]) THEN NA ELSE IntV(cells[i].y)]

DtMonth(cells) ==
    [i \in DOMAIN cells |-> IF IsNA(cells[i]) THEN NA ELSE IntV(cells[i].m)]

DtDay(cells) ==
    [i \in DOMAIN cells |-> IF IsNA(cells[i]) THEN NA ELSE IntV(cells[i].d)]

DtDayName(cells) ==
    [i \in DOMAIN cells |->
        IF IsNA(cells[i]) THEN NA
        ELSE Name(weekday_order[((DayNumber(cells[i]) + 2) % 7) + 1])]

\* --------------------------------------------------------------- dataframes

ValueColumn == "number_of_reviews"

Cols(t) == DOMAIN t.dtype

HasCol(t, c) == c \in Cols(t)

Frame(dtype, rows) == [dtype |-> dtype, rows |-> rows]

\* data[c]: the cells of column c, row by row.
Column(t, c) == [i \in 1..Len(t.rows) |-> t.rows[i][c]]

\* data[c] = cells: column c is added, or replaced when it exists.
Assign(t, c, dtype, cells) ==
    Frame([x \in Cols(t) \cup {c} |-> IF x = c THEN dtype ELSE t.dtype[x]],
          [i \in 1..Len(t.rows) |->
              [x \in Cols(t) \cup {c} |-> IF x = c THEN cells[i] ELSE t.rows[i][x]]])

\* A dropna that drops nothing.
DropNothing(t, c) == t

\* data.dropna(subset=[c]): a new dataframe of the rows whose c is present.
DropNA(t, c) ==
    LET Keep(r) == ~IsNA(r[c])
    IN  Frame(t.dtype, SelectSeq(t.rows, Keep))

\* The .dt accessor exists on datetime columns only.
HasDt(t, c) == t.dtype[c] = "datetime64[ns]"

\* The dtype of a column of integers: NaN forces float64.
IntDtype(cells) ==
    IF \E i \in DOMAIN cells : IsNA(cells[i]) THEN "float64" ELSE "int32"

\* The order of the characters of a date string: '-' sorts before the digits.
CharCode(c) == IF c = "-" THEN 0 ELSE DigitVal(c) + 1

RECURSIVE LexLeq(_, _)
LexLeq(a, b) ==
    IF a = <<>> THEN TRUE
    ELSE IF b = <<>> THEN FALSE
    ELSE IF a[1] = b[1] THEN LexLeq(Tail(a), Tail(b))
    ELSE CharCode(a[1]) < CharCode(b[1])

AlphabeticalRank(n) ==
    CHOOSE i \in 1..7 :
        <<"Friday", "Monday", "Saturday", "Sunday", "Thursday", "Tuesday",
          "Wednesday">>[i] = n

\* The order groupby sorts the keys of one column by: timestamps by time,
\* integers by value, strings as strings.
KeyLeq(a, b) ==
    CASE a.k = "ts" -> \/ a.y < b.y
                       \/ a.y = b.y /\ a.m < b.m
                       \/ a.y = b.y /\ a.m = b.m /\ a.d <= b.d
      [] a.k = "int" -> a.v <= b.v
      [] a.k = "name" -> AlphabeticalRank(a.n) <= AlphabeticalRank(b.n)
      [] a.k = "str" -> LexLeq(a.s, b.s)

RECURSIVE SortKeys(_)
SortKeys(S) ==
    IF S = {} THEN <<>>
    ELSE LET lo == CHOOSE a \in S : \A b \in S : KeyLeq(a, b)
         IN  <<lo>> \o SortKeys(S \ {lo})

CountRows(t, c, key) == Cardinality({i \in 1..Len(t.rows) : t.rows[i][c] = key})

RECURSIVE FirstSeen(_, _)
\* The keys of a sequence of cells in the order they first appear.
FirstSeen(cells, seen) ==
    IF cells = <<>> THEN <<>>
    ELSE IF cells[1] \in seen THEN FirstSeen(Tail(cells), seen)
    ELSE <<cells[1]>> \o FirstSeen(Tail(cells), seen \cup {cells[1]})

\* A grouping that leaves the keys unsorted, as with sort=False.
GroupSizeUnsorted(t, c, name) ==
    LET keys == FirstSeen(Column(t, c), {NA})
    IN  Frame([x \in {c, name} |-> IF x = c THEN t.dtype[c] ELSE "int64"],
              [i \in 1..Len(keys) |->
                  [x \in {c, name} |->
                      IF x = c THEN keys[i]
                      ELSE IntV(Cardinality({j \in 1..Len(t.rows) :
                                                t.rows[j][c] = keys[i]}))]])

\* data.groupby(c).size().reset_index(name=name): one row per key of c that
\* is present, sorted by key, with the number of rows carrying it.  Rows
\* whose key is missing belong to no group.
GroupSize(t, c, name) ==
    LET keys == SortKeys({t.rows[i][c] : i \in 1..Len(t.rows)} \ {NA})
    IN  Frame([x \in {c, name} |-> IF x = c THEN t.dtype[c] ELSE "int64"],
              [i \in 1..Len(keys) |->
                  [x \in {c, name} |->
                      IF x = c THEN keys[i] ELSE IntV(CountRows(t, c, keys[i]))]])

\* ------------------------------------------------------------- return values

NoCall == [fn |-> "none"]
NoReturn == [kind |-> "none"]
Raise(e) == [kind |-> "error", error |-> e]
ReturnFrame(t) == [kind |-> "frame", frame |-> t]
Raised(r) == r.kind = "error"

\* What a call leaves behind: the caller's dataframe and the value returned.
Outcome(d, r) == [data |-> d, ret |-> r]

\* ------------------------------------------------------------ timeseries_data

timeseries_data(d, date_column) ==
    IF ~HasCol(d, date_column) THEN Raise("KeyError")
    ELSE
    LET data_clean == DropNA(d, date_column)
        cells == Column(data_clean, date_column)
    IN  IF \E i \in DOMAIN cells : ~Parseable(cells[i]) THEN Raise("ValueError")
        ELSE
        LET c1 == Assign(data_clean, date_column, "datetime64[ns]",
                         ToDatetime(cells))
            c2 == Assign(c1, "year", "int32", DtYear(Column(c1, date_column)))
        IN  IF ~HasDt(c2, date_column) THEN Raise("AttributeError")
            ELSE
            LET c3 == Assign(c2, "month", "int32",
                             DtMonth(Column(c2, date_column)))
            IN  IF ~HasDt(c3, date_column) THEN Raise("AttributeError")
                ELSE ReturnFrame(Assign(c3, "day", "int32",
                                        DtDay(Column(c3, date_column))))

\* ------------------------------------------------------- plot_timeseries_data

\* The default of DataFrame.head().
HeadRows == 5

HeadOf(t) == Frame(t.dtype, SubSeq(t.rows, 1, IF Len(t.rows) < HeadRows
                                             THEN Len(t.rows) ELSE HeadRows))

\* time_series_data.describe(), as far as it is made of integers: the count,
\* the minimum and the maximum of the value column.
Describe(t, c) ==
    LET vals == {t.rows[i][c].v : i \in 1..Len(t.rows)}
    IN  [count |-> Len(t.rows),
         min |-> IF vals = {} THEN NA
                 ELSE IntV(CHOOSE a \in vals : \A b \in vals : a <= b),
         max |-> IF vals = {} THEN NA
                 ELSE IntV(CHOOSE a \in vals : \A b \in vals : b <= a)]

\* The chart's title reads .min().year and .max().year of the grouped dates:
\* a timestamp (or NaT) has a year, the minimum of any other column has not.
plot_timeseries_data(d, date_column) ==
    IF ~HasCol(d, date_column) THEN Raise("KeyError")
    ELSE
    LET time_series_data == GroupSize(d, date_column, ValueColumn)
    IN  IF ~HasDt(time_series_data, date_column) THEN Raise("AttributeError")
        ELSE [kind |-> "tuple", frame |-> time_series_data,
              describe |-> Describe(time_series_data, ValueColumn),
              head |-> HeadOf(time_series_data)]

\* ---------------------------------------------- decompose_and_plot_timeseries

MonthIndex(t) == t.y * 12 + t.m - 1

RECURSIVE SumWhere(_, _, _, _)
\* The sum of column c over the rows of t dated in month mi; NaN counts as 0.
SumWhere(t, date_column, c, mi) ==
    IF t.rows = <<>> THEN 0
    ELSE LET r == t.rows[1]
             rest == SumWhere(Frame(t.dtype, Tail(t.rows)), date_column, c, mi)
         IN  IF ~IsNA(r[date_column]) /\ MonthIndex(r[date_column]) = mi
                /\ r[c].k = "int"
             THEN r[c].v + rest ELSE rest

\* data.resample('M', on=date_column).sum()[value_column]: one sum per
\* calendar month from the first dated row's month to the last one's.
MonthlySums(t, date_column, c) ==
    LET ms == {MonthIndex(t.rows[i][date_column]) :
                  i \in {j \in 1..Len(t.rows) : ~IsNA(t.rows[j][date_column])}}
    IN  IF ms = {} THEN <<>>
        ELSE LET lo == CHOOSE a \in ms : \A b \in ms : a <= b
                 hi == CHOOSE a \in ms : \A b \in ms : b <= a
             IN  [i \in 1..(hi - lo + 1) |-> SumWhere(t, date_column, c, lo + i - 1)]

\* stl is what the library's STL(...).fit() does with the monthly series: it
\* fits ("ok") or raises.
decompose_and_plot_timeseries(d, date_column, value_column, stl) ==
    IF ~HasCol(d, date_column) THEN Raise("KeyError")
    ELSE IF ~HasDt(d, date_column) THEN Raise("TypeError")
    ELSE IF ~HasCol(d, value_column) THEN Raise("KeyError")
    ELSE IF stl # "ok" THEN Raise(stl)
    ELSE [kind |-> "decomposition",
          observed |-> MonthlySums(d, date_column, value_column)]

\* -------------------------------------------- stationarity_and_acf_pacf_plots

\* The significance level 0.05, in thousandths like the p-values.
Alpha == 50

\* A strict comparison with the significance level.
IsStationaryStrict(adf_result) == adf_result[2] < Alpha

\* adf_result[1] <= 0.05, on the tuple adfuller returns
\* (statistic, p-value, lags used, observations used).
IsStationary(adf_result) == adf_result[2] <= Alpha

\* adf is what the library's adfuller(data[value_column]) does: it returns
\* its tuple or raises.
stationarity_and_acf_pacf_plots(d, value_column, adf) ==
    IF ~HasCol(d, value_column) THEN Raise("KeyError")
    ELSE IF adf.raised # "" THEN Raise(adf.raised)
    ELSE LET adf_result == adf.result
         IN  [kind |-> "adf",
              adf_summary |-> [statistic |-> adf_result[1], pvalue |-> adf_result[2],
                               lags |-> adf_result[3], nobs |-> adf_result[4]],
              is_stationary |-> IsStationary(adf_result)]

\* ---------------------------------------------- plot_annual_reviews_and_growth

\* annual_reviews[name].pct_change() * 100: no value for the first row, then
\* the change from the row before, in percent, as the fraction num/den.
WithGrowthRate(t, name) ==
    Assign(t, "growth_rate", "float64",
           [i \in 1..Len(t.rows) |->
               IF i = 1 THEN NA
               ELSE Pct((t.rows[i][name].v - t.rows[i - 1][name].v) * 100,
                        t.rows[i - 1][name].v)])

\* The year column is written into the caller's dataframe before the
\* grouping; the chart's title then reads data[date_column].dt again.
plot_annual_reviews_and_growth(d, date_column) ==
    IF ~HasCol(d, date_column) THEN Outcome(d, Raise("KeyError"))
    ELSE IF ~HasDt(d, date_column) THEN Outcome(d, Raise("AttributeError"))
    ELSE
    LET years == DtYear(Column(d, date_column))
        d1 == Assign(d, "year", IntDtype(years), years)
        annual_reviews == WithGrowthRate(GroupSize(d1, "year", ValueColumn),
                                         ValueColumn)
    IN  IF ~HasDt(d1, date_column) THEN Outcome(d1, Raise("AttributeError"))
        ELSE Outcome(d1, ReturnFrame(annual_reviews))

\* ------------------------------------------------ plot_general_monthly_reviews

\* A monthly grouping that groups by the year column, which only a call of
\* plot_annual_reviews_and_growth leaves behind.
plot_general_monthly_reviews_by_year(d, date_column) ==
    IF ~HasCol(d, date_column) THEN Outcome(d, Raise("KeyError"))
    ELSE IF ~HasDt(d, date_column) THEN Outcome(d, Raise("AttributeError"))
    ELSE
    LET months == DtMonth(Column(d, date_column))
        d1 == Assign(d, "month", IntDtype(months), months)
    IN  IF ~HasCol(d1, "year") THEN Outcome(d1, Raise("KeyError"))
        ELSE Outcome(d1, ReturnFrame(GroupSize(d1, "year", ValueColumn)))

plot_general_monthly_reviews(d, date_column) ==
    IF ~HasCol(d, date_column) THEN Outcome(d, Raise("KeyError"))
    ELSE IF ~HasDt(d, date_column) THEN Outcome(d, Raise("AttributeError"))
    ELSE
    LET months == DtMonth(Column(d, date_column))
        d1 == Assign(d, "month", IntDtype(months), months)
    IN  Outcome(d1, ReturnFrame(GroupSize(d1, "month", ValueColumn)))

\* -------------------------------------------------------- plot_weekday_reviews

\* No reindexing: the weekdays that occur, in the order of the grouping.
NoReindex(t, order, name) == t

\* weekday_reviews.set_index('weekday').reindex(order).reset_index(): one row
\* per entry of order, carrying the row of t with that weekday, or NaN.
Reindex(t, order, name) ==
    LET Found(w) == {i \in 1..Len(t.rows) : t.rows[i]["weekday"] = Name(w)}
        cells == [i \in 1..Len(order) |->
                     IF Found(order[i]) = {} THEN NA
                     ELSE t.rows[CHOOSE j \in Found(order[i]) : TRUE][name]]
    IN  Frame([x \in {"weekday", name} |->
                  IF x = "weekday" THEN "object"
                  ELSE IF \E i \in DOMAIN cells : IsNA(cells[i]) THEN "float64"
                  ELSE "int64"],
              [i \in 1..Len(order) |->
                  [x \in {"weekday", name} |->
                      IF x = "weekday" THEN Name(order[i]) ELSE cells[i]]])

plot_weekday_reviews(d, date_column) ==
    IF ~HasCol(d, date_column) THEN Outcome(d, Raise("KeyError"))
    ELSE IF ~HasDt(d, date_column) THEN Outcome(d, Raise("AttributeError"))
    ELSE
    LET d1 == Assign(d, "weekday", "object",
                     DtDayName(Column(d, date_column)))
        weekday_reviews == GroupSize(d1, "weekday", ValueColumn)
    IN  Outcome(d1, ReturnFrame(Reindex(weekday_reviews, weekday_order, ValueColumn)))

\* ------------------------------------------------------------------- inputs

\* The names a date column goes by: a name of its own, and the names of the
\* columns the functions write.
DateColumns == {"last_review", "year", "month", "day", "weekday"}

\* The date_column values whose column plot_annual_reviews_and_growth,
\* plot_general_monthly_reviews and plot_weekday_reviews write.
Written == {"year", "month", "weekday"}

\* A column name no dataframe has.
Absent == "date"

\* The date_column arguments tried on a dataframe: each of its columns that
\* goes by a date column's name, and a column it does not have.
DateColumnArgs(d) == (DateColumns \cap Cols(d)) \cup {Absent}

D1 == <<"2", "0", "1", "8", "-", "1", "2", "-", "3", "1">>
D2 == <<"2", "0", "1", "9", "-", "0", "1", "-", "0", "5">>
D3 == <<"2", "0", "1", "9", "-", "7", "-", "8">>
Bad == <<"2", "0", "1", "9", "-", "0", "2", "-", "3", "0">>

\* The cells of a raw date column: missing, three days (a Monday of 2018, a
\* Saturday and a Monday of 2019, the last without zero padding) and a
\* string that names no day.
InputCells == {NA, Str(D1), Str(D2), Str(D3), Str(Bad)}

\* A raw table: an id per row and the date column as read from a file.
RawFrame(name, cells) ==
    Frame([x \in {"id", name} |-> IF x = "id" THEN "int64" ELSE "object"],
          [i \in 1..Len(cells) |->
              [x \in {"id", name} |-> IF x = "id" THEN IntV(i) ELSE cells[i]]])

\* The same table read with its dates parsed: a datetime column, NaT where
\* the date is missing.
ParsedFrame(name, cells) ==
    Assign(RawFrame(name, cells), name, "datetime64[ns]", ToDatetime(cells))

InputFrames ==
    LET cellSeqs == UNION {[1..n -> InputCells] : n \in 0..MaxRows}
    IN  {RawFrame(name, cells) : name \in DateColumns, cells \in cellSeqs}
        \cup {ParsedFrame(name, cells) :
                 name \in DateColumns,
                 cells \in {c \in cellSeqs : \A i \in DOMAIN c : Parseable(c[i])}}

\* p-values in thousandths, on both sides of the significance level.
PValues == {49, 50, 51}

\* What adfuller may do: raise, or return (statistic, p-value, lags, nobs).
AdfOutcomes ==
    {[raised |-> "ValueError"]}
    \cup {[raised |-> "", result |-> <<0 - 3, p, 0, 1>>] : p \in PValues}

StlOutcomes == {"ok", "ValueError"}

Aggregations == {"plot_timeseries_data", "plot_annual_reviews_and_growth",
                 "plot_general_monthly_reviews", "plot_weekday_reviews"}

\* ------------------------------------------------------------------ actions

Init ==
    /\ data \in InputFrames
    /\ fresh = data
    /\ call = NoCall
    /\ ret = NoReturn
    /\ excludedUsed = FALSE

\* The functions are synchronous: a call starts when none is under way and
\* the caller has taken up the result of the one before.
Idle == call = NoCall

Called(fn, date_column) == [fn |-> fn, date_column |-> date_column, arg |-> data]

TimeseriesData ==
    \E date_column \in DateColumnArgs(data) :
        /\ Idle
        /\ ret' = timeseries_data(data, date_column)
        /\ call' = Called("timeseries_data", date_column)
        /\ UNCHANGED <<data, fresh, excludedUsed>>

PlotTimeseriesData ==
    \E date_column \in DateColumnArgs(data) :
        /\ Idle
        /\ ret' = plot_timeseries_data(data, date_column)
        /\ call' = Called("plot_timeseries_data", date_column)
        /\ excludedUsed' = (excludedUsed \/ date_column \in Written)
        /\ UNCHANGED <<data, fresh>>

DecomposeAndPlotTimeseries ==
    \E date_column \in DateColumnArgs(data), stl \in StlOutcomes :
        /\ Idle
        /\ ret' = decompose_and_plot_timeseries(data, date_column, ValueColumn, stl)
        /\ call' = Called("decompose_and_plot_timeseries", date_column)
        /\ UNCHANGED <<data, fresh, excludedUsed>>

StationarityAndAcfPacfPlots ==
    \E adf \in AdfOutcomes :
        /\ Idle
        /\ ret' = stationarity_and_acf_pacf_plots(data, ValueColumn, adf)
        /\ call' = [fn |-> "stationarity_and_acf_pacf_plots", adf |-> adf, arg |-> data]
        /\ UNCHANGED <<data, fresh, excludedUsed>>

PlotAnnualReviewsAndGrowth ==
    \E date_column \in DateColumnArgs(data) :
        LET o == plot_annual_reviews_and_growth(data, date_column)
        IN  /\ Idle
            /\ data' = o.data
            /\ ret' = o.ret
            /\ call' = Called("plot_annual_reviews_and_growth", date_column)
            /\ excludedUsed' = (excludedUsed \/ date_column \in Written)
            /\ UNCHANGED fresh

PlotGeneralMonthlyReviews ==
    \E date_column \in DateColumnArgs(data) :
        LET o == plot_general_monthly_reviews(data, date_column)
        IN  /\ Idle
            /\ data' = o.data
            /\ ret' = o.ret
            /\ call' = Called("plot_general_monthly_reviews", date_column)
            /\ excludedUsed' = (excludedUsed \/ date_column \in Written)
            /\ UNCHANGED fresh

PlotWeekdayReviews ==
    \E date_column \in DateColumnArgs(data) :
        LET o == plot_weekday_reviews(data, date_column)
        IN  /\ Idle
            /\ data' = o.data
            /\ ret' = o.ret
            /\ call' = Called("plot_weekday_reviews", date_column)
            /\ excludedUsed' = (excludedUsed \/ date_column \in Written)
            /\ UNCHANGED fresh

\* The caller goes on with the dataframe a call returned: "call function, use
\* its dataframe output as input to the next".
Compose ==
    /\ ret.kind \in {"frame", "tuple"}
    /\ data' = ret.frame
    /\ fresh' = ret.frame
    /\ call' = NoCall
    /\ ret' = NoReturn
    /\ excludedUsed' = FALSE

\* The caller goes on with the dataframe it passed in, whatever the call
\* returned or raised.
Discard ==
    /\ ~Idle
    /\ call' = NoCall
    /\ ret' = NoReturn
    /\ UNCHANGED <<data, fresh, excludedUsed>>

Next ==
    \/ TimeseriesData
    \/ PlotTimeseriesData
    \/ DecomposeAndPlotTimeseries
    \/ StationarityAndAcfPacfPlots
    \/ PlotAnnualReviewsAndGrowth
    \/ PlotGeneralMonthlyReviews
    \/ PlotWeekdayReviews
    \/ Compose
    \/ Discard

Spec == Init /\ [][Next]_vars

\* ------------------------------------------------------- checking by hand

\* The three days of the inputs, read off a calendar.
KnownDate(v) ==
    CASE v \in {Str(D1), Ts(2018, 12, 31)} -> Ts(2018, 12, 31)
      [] v \in {Str(D2), Ts(2019, 1, 5)} -> Ts(2019, 1, 5)
      [] v \in {Str(D3), Ts(2019, 7, 8)} -> Ts(2019, 7, 8)

KnownWeekday(v) ==
    CASE v = Ts(2018, 12, 31) -> "Monday"
      [] v = Ts(2019, 1, 5) -> "Saturday"
      [] v = Ts(2019, 7, 8) -> "Monday"

WellFormed(v) ==
    v \in {Str(D1), Str(D2), Str(D3),
           Ts(2018, 12, 31), Ts(2019, 1, 5), Ts(2019, 7, 8)}

StrictlyEarlier(a, b) ==
    \/ a.y < b.y
    \/ a.y = b.y /\ a.m < b.m
    \/ a.y = b.y /\ a.m = b.m /\ a.d < b.d

RECURSIVE Tally(_, _, _)
\* How many of the rows carry key in column c, counted row by row.
Tally(rows, c, key) ==
    IF rows = <<>> THEN 0
    ELSE (IF rows[1][c] = key THEN 1 ELSE 0) + Tally(Tail(rows), c, key)

RECURSIVE Present(_, _)
\* How many of the rows have a value in column c.
Present(rows, c) ==
    IF rows = <<>> THEN 0
    ELSE (IF IsNA(rows[1][c]) THEN 0 ELSE 1) + Present(Tail(rows), c)

RECURSIVE Total(_, _)
Total(rows, c) ==
    IF rows = <<>> THEN 0 ELSE rows[1][c].v + Total(Tail(rows), c)

RECURSIVE TotalOfYear(_, _, _, _)
\* The sum of column c over the rows dated in year y.
TotalOfYear(rows, date_column, c, y) ==
    IF rows = <<>> THEN 0
    ELSE (IF rows[1][date_column].y = y THEN rows[1][c].v ELSE 0)
         + TotalOfYear(Tail(rows), date_column, c, y)

RECURSIVE TallyWeekday(_, _, _)
\* How many of the rows are dated on weekday w.
TallyWeekday(rows, date_column, w) ==
    IF rows = <<>> THEN 0
    ELSE (IF ~IsNA(rows[1][date_column]) /\ KnownWeekday(rows[1][date_column]) = w
          THEN 1 ELSE 0) + TallyWeekday(Tail(rows), date_column, w)

\* The call just made was fn on a dataframe that has the date column named.
CalledOn(fn) == call.fn = fn /\ HasCol(call.arg, call.date_column)

\* ... and that column holds datetimes, as the functions past
\* timeseries_data are documented to take.
CalledOnDates(fn) == CalledOn(fn) /\ HasDt(call.arg, call.date_column)

\* -------------------------------------------------------------------- C1

\* C1: plot_timeseries_data on a table of dates returns one row per distinct
\* date of the date column, in ascending date order, each with the number of
\* input rows carrying that date as counted row by row; the counts sum to the
\* number of input rows that have a date.
C1_GroupedCounts ==
    CalledOnDates("plot_timeseries_data") =>
        /\ ret.kind = "tuple"
        /\ LET c == call.date_column
               in == call.arg.rows
               out == ret.frame.rows
               dates == {in[i][c] : i \in 1..Len(in)} \ {NA}
           IN  /\ Cols(ret.frame) = {c, ValueColumn}
               /\ {out[i][c] : i \in 1..Len(out)} = dates
               /\ Len(out) = Cardinality(dates)
               /\ \A i, j \in 1..Len(out) :
                     i < j => StrictlyEarlier(out[i][c], out[j][c])
               /\ \A i \in 1..Len(out) :
                     out[i][ValueColumn] = IntV(Tally(in, c, out[i][c]))
               /\ Total(out, ValueColumn) = Present(in, c)

\* Three dated rows, the first two of one day and the third of an earlier
\* one: two rows come back, the earlier day first, the later with count 2.
C1_Witness ==
    /\ CalledOnDates("plot_timeseries_data")
    /\ ret.kind = "tuple"
    /\ Len(call.arg.rows) = 3
    /\ ~IsNA(call.arg.rows[1][call.date_column])
    /\ call.arg.rows[2][call.date_column] = call.arg.rows[1][call.date_column]
    /\ Len(ret.frame.rows) = 2
    /\ ret.frame.rows[1][call.date_column] = call.arg.rows[3][call.date_column]
    /\ ret.frame.rows[2][ValueColumn] = IntV(2)

\* -------------------------------------------------------------------- C2

\* C2: after any call of one of the seven functions the dataframe passed in
\* has the columns and the cells it had before the call.
C2_DataUnchanged ==
    ~Idle => Cols(data) = Cols(call.arg) /\ data.rows = call.arg.rows

\* What does hold: the four functions that write no column leave it alone.
C2_ReadOnlyFunctions ==
    call.fn \in {"timeseries_data", "plot_timeseries_data",
                 "decompose_and_plot_timeseries",
                 "stationarity_and_acf_pacf_plots"} => data = call.arg

\* -------------------------------------------------------------------- C3

\* The rows of the input that have a date, in the input's order.
Dated(t, c) ==
    LET HasDate(r) == r[c] # NA
    IN  SelectSeq(t.rows, HasDate)

\* What C3 says of a call of timeseries_data whose dates are well formed: the
\* rows returned are the dated rows of the input, in order, each with its
\* other cells as they were, its date as a timestamp, and year, month and day
\* those of its date.
DatedRowsWithParts ==
    /\ ret.kind = "frame"
    /\ LET c == call.date_column
           kept == Dated(call.arg, c)
           out == ret.frame.rows
       IN  /\ Len(out) = Len(kept)
           /\ \A i \in 1..Len(out) :
                /\ \A x \in Cols(call.arg) \ {c, "year", "month", "day"} :
                      out[i][x] = kept[i][x]
                /\ out[i][c] = KnownDate(kept[i][c])
                /\ out[i]["year"] = IntV(KnownDate(kept[i][c]).y)
                /\ out[i]["month"] = IntV(KnownDate(kept[i][c]).m)
                /\ out[i]["day"] = IntV(KnownDate(kept[i][c]).d)

AllWellFormed(t, c) ==
    \A i \in 1..Len(t.rows) : IsNA(t.rows[i][c]) \/ WellFormed(t.rows[i][c])

\* C3: for every input table whose dates are all well formed,
\* timeseries_data returns exactly the dated rows, with year, month and day
\* equal to the parts of each row's date.
C3_DatedRowsWithParts ==
    (CalledOn("timeseries_data") /\ AllWellFormed(call.arg, call.date_column))
        => DatedRowsWithParts

\* What does hold: the same, for a date column that is not one of the columns
\* the function writes.  Named year or month, the dates are overwritten and
\* then read again, which raises; named day, they are overwritten last.
C3_DatedRowsWithPartsUnlessOverwritten ==
    (/\ CalledOn("timeseries_data")
     /\ AllWellFormed(call.arg, call.date_column)
     /\ call.date_column \notin {"year", "month", "day"})
        => DatedRowsWithParts

\* A raw table of three rows, the second without a date, the third not zero
\* padded: two rows are returned.
C3_Witness ==
    /\ CalledOn("timeseries_data")
    /\ call.date_column = "last_review"
    /\ call.arg.dtype[call.date_column] = "object"
    /\ Len(call.arg.rows) = 3
    /\ IsNA(call.arg.rows[2][call.date_column])
    /\ call.arg.rows[3][call.date_column] = Str(D3)
    /\ ret.kind = "frame"
    /\ Len(ret.frame.rows) = 2
    /\ ret.frame.rows[2]["month"] = IntV(7)

\* -------------------------------------------------------------------- C4

\* Time series data as plot_timeseries_data returns it: one row per date,
\* each with a count of reviews.
IsTimeSeries(t, c) ==
    /\ HasCol(t, c) /\ HasDt(t, c)
    /\ Cols(t) = {c, ValueColumn}
    /\ \A i \in 1..Len(t.rows) : ~IsNA(t.rows[i][c]) /\ t.rows[i][ValueColumn].k = "int"
    /\ \A i, j \in 1..Len(t.rows) : i # j => t.rows[i][c] # t.rows[j][c]

\* C4: on time series data plot_annual_reviews_and_growth returns one row per
\* year of the data, whose annual value is the sum of the number of reviews
\* over the rows dated in that year.  (Stated for a date column not named
\* year, so that the year column written does not replace the dates.)
C4_AnnualSums ==
    (/\ call.fn = "plot_annual_reviews_and_growth"
     /\ call.date_column # "year"
     /\ IsTimeSeries(call.arg, call.date_column))
        => /\ ret.kind = "frame"
           /\ LET c == call.date_column
                  in == call.arg.rows
                  out == ret.frame.rows
                  years == {in[i][c].y : i \in 1..Len(in)}
              IN  /\ {out[i]["year"] : i \in 1..Len(out)} = {IntV(y) : y \in years}
                  /\ Len(out) = Cardinality(years)
                  /\ \A i \in 1..Len(out) :
                        out[i][ValueColumn]
                           = IntV(TotalOfYear(in, c, ValueColumn, out[i]["year"].v))

\* What the code returns there: the number of rows, that is of dates, of
\* each year.
C4_AnnualRowCounts ==
    (/\ call.fn = "plot_annual_reviews_and_growth"
     /\ call.date_column # "year"
     /\ IsTimeSeries(call.arg, call.date_column))
        => /\ ret.kind = "frame"
           /\ \A i \in 1..Len(ret.frame.rows) :
                 ret.frame.rows[i][ValueColumn]
                    = IntV(Cardinality({j \in 1..Len(call.arg.rows) :
                               call.arg.rows[j][call.date_column].y
                                  = ret.frame.rows[i]["year"].v}))

\* -------------------------------------------------------------------- C5

DateFunctions == {"timeseries_data", "plot_timeseries_data",
                  "decompose_and_plot_timeseries",
                  "plot_annual_reviews_and_growth",
                  "plot_general_monthly_reviews", "plot_weekday_reviews"}

\* A dated cell that is a string naming no day.
HasBadDate(t, c) == \E i \in 1..Len(t.rows) : t.rows[i][c] = Str(Bad)

\* C6: a call of any function that takes a date column, on a dataframe
\* without that column, ends in the library's KeyError, and timeseries_data
\* on a date that does not parse ends in the library's ValueError; no
\* dataframe is returned and the caller's dataframe is as it was.
C6_ErrorsPropagate ==
    /\ (call.fn \in DateFunctions /\ ~HasCol(call.arg, call.date_column))
          => ret = Raise("KeyError") /\ data = call.arg
    /\ (CalledOn("timeseries_data") /\ HasBadDate(call.arg, call.date_column))
          => ret = Raise("ValueError") /\ data = call.arg

\* A raw table whose first date parses and whose second does not.
C6_Witness ==
    /\ CalledOn("timeseries_data")
    /\ Len(call.arg.rows) >= 2
    /\ call.arg.rows[1][call.date_column] = Str(D1)
    /\ call.arg.rows[2][call.date_column] = Str(Bad)
    /\ Raised(ret)

\* -------------------------------------------------------------------- C7

\* What fn returns when it is the first call on a dataframe.
FirstReturn(fn, d, date_column) ==
    CASE fn = "plot_timeseries_data" -> plot_timeseries_data(d, date_column)
      [] fn = "plot_annual_reviews_and_growth" ->
            plot_annual_reviews_and_growth(d, date_column).ret
      [] fn = "plot_general_monthly_reviews" ->
            plot_general_monthly_reviews(d, date_column).ret
      [] fn = "plot_weekday_reviews" -> plot_weekday_reviews(d, date_column).ret

\* C7: whatever calls of the four aggregations went before on the same
\* dataframe, none with a date column named year, month or weekday, each
\* returns what it returns as the first call on a fresh copy.
C7_ReturnsAsOnFreshCopy ==
    (call.fn \in Aggregations /\ ~excludedUsed)
        => ret = FirstReturn(call.fn, fresh, call.date_column)

\* A monthly grouping of two months, after calls that left the year and
\* weekday columns in the dataframe.
C7_Witness ==
    /\ CalledOnDates("plot_general_monthly_reviews")
    /\ ~excludedUsed
    /\ {"year", "weekday"} \cap Cols(fresh) = {}
    /\ {"year", "weekday"} \subseteq Cols(call.arg)
    /\ ret.kind = "frame"
    /\ Len(ret.frame.rows) = 2

\* -------------------------------------------------------------------- C8

\* C8: plot_weekday_reviews on a table of dates, empty or not, returns seven
\* rows, Monday to Sunday in that order; a weekday some row falls on carries
\* the number of such rows, a weekday no row falls on carries a missing value.
C8_SevenWeekdays ==
    CalledOnDates("plot_weekday_reviews") =>
        /\ ret.kind = "frame"
        /\ Cols(ret.frame) = {"weekday", ValueColumn}
        /\ Len(ret.frame.rows) = 7
        /\ \A i \in 1..7 :
              LET w == <<"Monday", "Tuesday", "Wednesday", "Thursday", "Friday",
                         "Saturday", "Sunday">>[i]
                  n == TallyWeekday(call.arg.rows, call.date_column, w)
              IN  /\ ret.frame.rows[i]["weekday"] = Name(w)
                  /\ ret.frame.rows[i][ValueColumn] = (IF n = 0 THEN NA ELSE IntV(n))

\* Two Mondays and a Saturday: counts for those two days, nothing for Sunday.
C8_Witness ==
    /\ CalledOnDates("plot_weekday_reviews")
    /\ ret.kind = "frame"
    /\ ret.frame.rows[1][ValueColumn] = IntV(2)
    /\ ret.frame.rows[6][ValueColumn] = IntV(1)
    /\ IsNA(ret.frame.rows[7][ValueColumn])

\* An empty table of dates: seven rows, none with a count.
C8_EmptyInput ==
    /\ CalledOnDates("plot_weekday_reviews")
    /\ call.arg.rows = <<>>
    /\ ret.kind = "frame"
    /\ Len(ret.frame.rows) = 7

====
